---- MODULE Spec2Model ----
(***************************************************************************)
(* Model of the `mload` command of maana-io/q-cli (final revision of the   *)
(* command): handler -> load -> uploadViaMutation | convertToNdf, with the *)
(* per-invocation aggregate fileResults, the batch loop and its requests,  *)
(* and the NDF conversion loop with its periodic flush.                    *)
(***************************************************************************)
EXTENDS Integers, Sequences, FiniteSets, TLC

(***************************************************************************)
(* JavaScript values.  Every value is a record of one shape: t is the      *)
(* `typeof`-like tag, s the text of a string / number / boolean, a the     *)
(* elements of an array.                                                   *)
(***************************************************************************)
Str(s) == [t |-> "string", s |-> s, a |-> <<>>]
Num(s) == [t |-> "number", s |-> s, a |-> <<>>]
Bool(s) == [t |-> "boolean", s |-> s, a |-> <<>>]
Arr(a) == [t |-> "array", s |-> "", a |-> a]
Null == [t |-> "null", s |-> "", a |-> <<>>]
Undefined == [t |-> "undefined", s |-> "", a |-> <<>>]

\* JavaScript truthiness of a value (`!val` is its negation).
Truthy(v) ==
  CASE v.t = "string" -> v.s # ""
    [] v.t = "number" -> v.s \notin {"0", "NaN"}
    [] v.t = "boolean" -> v.s = "true"
    [] v.t = "array" -> TRUE
    [] OTHER -> FALSE

\* Text of a value inside a template literal or Array.prototype.join.
RECURSIVE JoinWith(_, _, _)
JoinWith(strs, sep, k) ==
  IF k > Len(strs) THEN ""
  ELSE IF k = Len(strs) THEN strs[k]
  ELSE strs[k] \o sep \o JoinWith(strs, sep, k + 1)

Join(strs, sep) == JoinWith(strs, sep, 1)

RECURSIVE ToText(_)
ToText(v) ==
  CASE v.t = "null" -> "null"
    [] v.t = "undefined" -> "undefined"
    [] v.t = "array" -> Join([k \in 1..Len(v.a) |->
                               IF v.a[k].t \in {"null", "undefined"} THEN ""
                               ELSE ToText(v.a[k])], ",")
    [] OTHER -> v.s

\* the escapes of JSON.stringify for the characters the model's strings have
RECURSIVE Escape(_)
Escape(s) ==
  IF Len(s) = 0 THEN ""
  ELSE (IF SubSeq(s, 1, 1) = "\"" THEN "\\\""
        ELSE IF SubSeq(s, 1, 1) = "\\" THEN "\\\\"
        ELSE SubSeq(s, 1, 1)) \o Escape(SubSeq(s, 2, Len(s)))

\* JSON.stringify of a value
RECURSIVE JSONstringify(_)
JSONstringify(v) ==
  CASE v.t = "string" -> Str("\"" \o Escape(v.s) \o "\"")
    [] v.t = "null" -> Str("null")
    [] v.t = "undefined" -> Undefined
    [] v.t = "array" -> Str("[" \o Join([k \in 1..Len(v.a) |->
                               IF v.a[k].t = "undefined" THEN "null"
                               ELSE JSONstringify(v.a[k]).s], ",") \o "]")
    [] OTHER -> Str(v.s)

(***************************************************************************)
(* Identifiers.                                                            *)
(***************************************************************************)
NDF_ID_LEN == 25

LongId == "urn:maana:person:00000000000001"
LongId2 == "urn:maana:person:00000000000002"
Id25 == "abcdefghijklmnopqrstuvwxy"
Id26 == "abcdefghijklmnopqrstuvwxyz"

\* md5-base64 of the over-long identifiers of the model (the real digests).
md5Base64(s) ==
  CASE s = LongId -> "KWadWkxzfsu2FAmhykobzw=="
    [] s = LongId2 -> "DdGfTdw9j+jPK/MyQblYhg=="
    [] s = Id26 -> "w/zT12GS5AB9+0lsymfhOw=="
    [] OTHER -> "1B2M2Y8AsgTpgAmY7PhCfg=="

\* The identifier that the digest of LongId yields: a short raw id that
\* normalizes to the same value as LongId.
HashedId == "KWadWkxzfsu2FAmhykobzw"

\* String.prototype.slice(0, -2)
SliceOffLast2(s) == IF Len(s) <= 2 THEN "" ELSE SubSeq(s, 1, Len(s) - 2)

\* an id that is never hashed
mkNdfIdStrKept(s) == s

\* mkNdfId applied to a string.
mkNdfIdStr(s) == IF Len(s) > NDF_ID_LEN THEN SliceOffLast2(md5Base64(s)) ELSE s

\* mkNdfId applied to any value: `id.length > 25` is false for a value with
\* no length, and an array is returned as it is unless it has more than 25
\* elements.
mkNdfId(v) ==
  IF v.t = "string" THEN Str(mkNdfIdStr(v.s)) ELSE v

(***************************************************************************)
(* The GraphQL schema of the run: one entity type and its input type, with *)
(* a scalar, a number, a list of scalars, a list relation and a singular   *)
(* relation.  A type reference is NAMED, LIST or NON_NULL.                 *)
(***************************************************************************)
Named(n) == [kind |-> "NAMED", name |-> n]
ListOf(t) == [kind |-> "LIST", ofType |-> t]
NonNull(t) == [kind |-> "NON_NULL", ofType |-> t]

TypeName == "Person"
MutationName == "addPersons"
ObjectTypes == {"Person", "Company"}
ConnectionNames == {"PersonConnection"}

FieldNames == {"id", "name", "age", "tags", "friends", "employer"}

\* type.getFields()[fieldName].type, for the entity type and its input type
FieldType(fieldName) ==
  CASE fieldName = "id" -> NonNull(Named("ID"))
    [] fieldName = "name" -> Named("String")
    [] fieldName = "age" -> Named("Int")
    [] fieldName = "tags" -> NonNull(ListOf(NonNull(Named("String"))))
    [] fieldName = "friends" -> ListOf(Named("Person"))
    [] fieldName = "employer" -> Named("Company")

RECURSIVE getNamedType(_)
getNamedType(type) ==
  IF type.kind = "NAMED" THEN type.name ELSE getNamedType(type.ofType)

\* the while loop of typeIsList: unwrap NON_NULL until a LIST is met
RECURSIVE UnwrapsToList(_)
UnwrapsToList(type) ==
  CASE type.kind = "LIST" -> TRUE
    [] type.kind = "NON_NULL" -> UnwrapsToList(type.ofType)
    [] OTHER -> FALSE

\* the name test is made once, on the type as given, before the loop
typeIsList(type) ==
  \/ (type.kind = "NAMED" /\ type.name \in ConnectionNames)
  \/ UnwrapsToList(type)

\* getField: threw is the `throw msg` of an undefined field.  The type
\* cache only stores what this computes and is not modelled.
getField(fieldName) ==
  IF fieldName \notin FieldNames
  THEN [threw |-> TRUE, isList |-> FALSE, isNonNull |-> FALSE,
        isObject |-> FALSE, namedType |-> ""]
  ELSE [threw |-> FALSE,
        isList |-> typeIsList(FieldType(fieldName)),
        isNonNull |-> FieldType(fieldName).kind = "NON_NULL",
        isObject |-> getNamedType(FieldType(fieldName)) \in ObjectTypes,
        namedType |-> getNamedType(FieldType(fieldName))]

(***************************************************************************)
(* coerce.  The result is [threw, v]: threw is the Error of an invalid     *)
(* date or time, v the returned value otherwise.                           *)
(***************************************************************************)
\* Number(string): the numeric literal it denotes, "NaN" when it is none
NumberOf(s) ==
  CASE s = "" -> "0"
    [] s \in {"42", "7", "0"} -> s
    [] s = "4.5" -> s
    [] OTHER -> "NaN"

\* String.prototype.toLowerCase on the strings that spell a boolean
LowerCase(s) ==
  CASE s \in {"true", "TRUE", "True"} -> "true"
    [] s \in {"false", "FALSE", "False"} -> "false"
    [] OTHER -> s

\* moment(val).isValid() and its renderings, for the date texts of the model
MomentValid(s) == s \in {"2020-01-05", "2020-01-05T00:00:00.000Z"}
MomentISO(s) == "2020-01-05T00:00:00.000Z"
MomentYMD(s) == "2020-01-05"
TimeValid(s) == s \in {"12:30:00"}

Ok(v) == [threw |-> FALSE, v |-> v]
Thrown == [threw |-> TRUE, v |-> Undefined]

coerceNumber(val, def) ==
  IF val.t = "string"
  THEN IF NumberOf(val.s) = "NaN" THEN Ok(def) ELSE Ok(Num(NumberOf(val.s)))
  ELSE IF val.t = "number" THEN Ok(val) ELSE Ok(def)

coerceBoolean(val, def) ==
  IF val.t = "string"
  THEN IF LowerCase(val.s) \in {"true", "false"}
       THEN Ok(Bool(LowerCase(val.s))) ELSE Ok(def)
  ELSE IF val.t = "boolean" THEN Ok(val) ELSE Ok(def)

cvtDate(type, val, quoted, isoDate) ==
  LET txt == ToText(val)
      dateStr == IF type = "Time" THEN txt
                 ELSE IF (type = "Date" /\ isoDate) \/ type = "DateTime"
                      THEN MomentISO(txt) ELSE MomentYMD(txt)
  IN IF type = "Time" /\ ~TimeValid(txt) THEN Thrown
     ELSE IF type # "Time" /\ ~MomentValid(txt) THEN Thrown
     ELSE Ok(Str(IF quoted THEN "\"" \o dateStr \o "\"" ELSE dateStr))

\* a coercion that gives the JSON text of whatever it is given
coerceAlwaysQuotes(type, val, def, quoted, isoDate) == Ok(JSONstringify(val))

coerce(type, val, def, quoted, isoDate) ==
  CASE type \in {"Float", "Int"} -> coerceNumber(val, def)
    [] type = "Boolean" -> coerceBoolean(val, def)
    [] type \in {"Date", "DateTime", "Time"} ->
         IF ~Truthy(val) THEN Ok(def) ELSE cvtDate(type, val, quoted, isoDate)
    [] OTHER ->
         IF ~quoted /\ val.t = "string" THEN Ok(val) ELSE Ok(JSONstringify(val))

(***************************************************************************)
(* Records: a record is the sequence of its keys and values in insertion   *)
(* order (the order of Object.keys).                                       *)
(***************************************************************************)
KV(k, v) == [k |-> k, v |-> v]
Keys(row) == [n \in 1..Len(row) |-> row[n].k]
HasKey(row, k) == \E n \in 1..Len(row) : row[n].k = k
Get(row, k) ==
  IF HasKey(row, k)
  THEN row[CHOOSE n \in 1..Len(row) : row[n].k = k].v
  ELSE Undefined

\* utils: isNullOrEmpty on an array or on an object given by its entries
isNullOrEmpty(xs) == Len(xs) = 0

(***************************************************************************)
(* buildMutation.                                                          *)
(***************************************************************************)
\* one `fieldName: value` of a row; threw is a throw inside the map callback
\* (undefined field, unexpected or missing collection, invalid date)
RowField(row, n) ==
  LET fieldName == row[n].k
      value == row[n].v
      f == getField(fieldName)
      values == [k \in 1..Len(value.a) |->
                   coerce(f.namedType, value.a[k], Null, TRUE, FALSE)]
      one == coerce(f.namedType, value, Null, TRUE, FALSE)
  IN IF f.threw THEN Thrown
     ELSE IF value.t = "array"
     THEN IF ~f.isList THEN Thrown
          ELSE IF Len(value.a) = 0 THEN Ok(Str(fieldName \o ": null"))
          ELSE IF \E k \in 1..Len(values) : values[k].threw THEN Thrown
          ELSE Ok(Str(fieldName \o ": ["
                      \o ToText(Arr([k \in 1..Len(values) |-> values[k].v]))
                      \o "]"))
     ELSE IF f.isList THEN Thrown
     ELSE IF one.threw THEN Thrown
     ELSE Ok(Str(fieldName \o ": " \o ToText(one.v) \o "\n"))

\* the object literal of a row.  The try/catch inside the map callback
\* swallows every throw of the row: the instance is then undefined.
Instance(row) ==
  IF \E n \in 1..Len(row) : RowField(row, n).threw
  THEN Undefined
  ELSE Str("{" \o Join([n \in 1..Len(row) |-> RowField(row, n).v.s], ",") \o "}")

\* the text of the mutation of a batch, for a list-typed or a singular input
MutationText(inputIsList, data) ==
  IF inputIsList
  THEN "mutation { " \o MutationName \o "(input:["
       \o Join([k \in 1..Len(data) |->
                 IF Instance(data[k]).t = "undefined" THEN ""
                 ELSE Instance(data[k]).s], ", ")
       \o "]) }"
  ELSE "mutation { "
       \o Join([k \in 1..Len(data) |->
                 "m" \o ToString(k - 1) \o ": " \o MutationName \o "(input:"
                 \o ToText(Instance(data[k])) \o ")"], "\n")
       \o " }"

\* buildMutation: nothing thrown while mapping the rows leaves the callback,
\* so it always returns a text
buildMutation(inputIsList, data) == Ok(Str(MutationText(inputIsList, data)))

(***************************************************************************)
(* The records the input files are made of.                                *)
(***************************************************************************)
R_a == <<KV("id", Str("a")), KV("name", Str("Ann"))>>
R_a2 == <<KV("id", Str("a")), KV("age", Str("abc"))>>
R_long == <<KV("id", Str(LongId)), KV("tags", Arr(<<Str("x"), Str("y")>>))>>
R_hash == <<KV("id", Str(HashedId)), KV("employer", Str("acme"))>>
R_noid == <<KV("name", Str("Bob"))>>
R_empty == <<KV("id", Str("")), KV("name", Str("Eve"))>>
R_proto == <<KV("id", Str("constructor")), KV("name", Str("Cy"))>>
R_rel == <<KV("id", Str("b")), KV("age", Str("42")),
           KV("friends", Arr(<<Str("a"), Str(LongId)>>))>>
R_bogus == <<KV("id", Str("c")), KV("nickname", Str("x"))>>
R_coll == <<KV("id", Str("d")), KV("name", Arr(<<Str("a"), Str("b")>>))>>
R_scalar == <<KV("id", Str("e")), KV("tags", Str("x"))>>

NdfRecords == {R_a2, R_long, R_hash, R_noid, R_empty, R_proto, R_rel, R_bogus,
               R_scalar}
UploadRecords == {R_a, R_coll, R_scalar}

(***************************************************************************)
(* Bounds of the model and constants of the program.                       *)
(***************************************************************************)
MaxFiles == 2        \* files in the directory
MaxRecs == 2        \* records read in one run, over all its files

\* the values of --batchsize (0: the option is not given)
BatchSizes == {-1, 0, 1, 2}

DEFAULT_BATCH_SIZE == 1000000
NDF_FLUSH_EVERY == 10000

\* the flush period of convertToNdf, and a scaled-down period that the
\* files of the model reach
FlushPeriods == {1, NDF_FLUSH_EVERY}

SeqsUpTo(S, n) == UNION {[1..k -> S] : k \in 0..n}
Min(a, b) == IF a < b THEN a ELSE b

Exts == {".json", ".txt"}
SupportedExts == {".csv", ".tsv", ".dat", ".json"}

\* how the request of a batch ends: a result with no null entry, a result
\* with null entries, a result with top-level errors, or an exception (an
\* error object with a response, one without, a string)
Outcomes == {"ok", "nulls", "errors", "excResponse", "excNoResponse",
             "excString"}
FailureOutcomes == Outcomes \ {"ok", "nulls"}

VARIABLES
  argv,         \* the options: ndfout (given or not), batchsize (0: not given)
  inputIsList,  \* whether the `input` argument of the mutation is list-typed
  flushEvery,   \* the entity count at whose multiples convertToNdf flushes
  filePaths,    \* the files of the run: the extension of each, in listing order
  hpc,          \* handler: "loop", "done" (report built), "rejected"
  i,            \* handler: number of files whose load was called
  fpc,          \* load of each file: "idle", "await", "convert", "done", "threw"
  fileResults,  \* the aggregate of the run
  data,         \* uploadViaMutation: the records of each file
  offset,       \* uploadViaMutation: the offset of the current batch
  inflight,     \* requests sent and not settled: [file, offset]
  sent,         \* the requests made for the file loaded last, in order
  ndf,          \* convertToNdf: the local state of its last call
  disk,         \* every writeNdfFile call of the run, in order
  written,      \* the values the last call of convertToNdf has written
  reports,      \* number of calls of buildReport
  succFiles,    \* the files for which fileResults.succeed was incremented
  observed,     \* what the requests did: the one settled by the last step,
                \* the number of failed requests and the null results of
                \* each file
  recsRead,     \* records read so far in the run
  began,        \* how the load called last got to its data
  call          \* the last call of a function made on its own, with its result

vars == <<argv, inputIsList, flushEvery, filePaths, hpc, i, fpc, fileResults,
          data, offset, inflight, sent, ndf, disk, written, reports,
          succFiles, observed, recsRead, began, call>>

Files == 1..Len(filePaths)

NoNdf == [file |-> 0, data |-> <<>>, idx |-> 0, nodes |-> <<>>, lists |-> <<>>,
          relations |-> <<>>, entityCnt |-> 0, errorCnt |-> 0,
          dedupe |-> <<>>]

NoCall == [fn |-> "none"]

NoWritten == [nodes |-> <<>>, lists |-> <<>>, relations |-> <<>>]

NoLast == [file |-> 0, offset |-> 0, outcome |-> "none"]

\* a step that settles no request
Quiet == observed' = [observed EXCEPT !.last = NoLast]

InitCommon ==
  /\ filePaths \in SeqsUpTo(Exts, MaxFiles)
  /\ hpc = "loop"
  /\ i = 0
  /\ fpc = [f \in 1..Len(filePaths) |-> "idle"]
  /\ fileResults = [ndfGenCnt |-> 0, ndfFileCnt |-> 0, succeed |-> 0,
                    total |-> 0,
                    errors |-> [mutation |-> <<>>, dataRead |-> <<>>,
                                uploading |-> [f \in 1..Len(filePaths) |-> 0],
                                ndf |-> <<>>]]
  /\ data = [f \in 1..Len(filePaths) |-> <<>>]
  /\ offset = [f \in 1..Len(filePaths) |-> 0]
  /\ inflight = {}
  /\ sent = <<>>
  /\ ndf = NoNdf
  /\ disk = <<>>
  /\ written = NoWritten
  /\ reports = 0
  /\ succFiles = {}
  /\ observed = [last |-> NoLast,
                 fails |-> [f \in 1..Len(filePaths) |-> 0],
                 nulls |-> {}]
  /\ recsRead = 0
  /\ began = "none"
  /\ call = NoCall

Init ==
  /\ InitCommon
  /\ \/ /\ argv \in [ndfout : {FALSE}, batchsize : BatchSizes]
        /\ inputIsList \in BOOLEAN
        /\ flushEvery = NDF_FLUSH_EVERY
     \/ /\ argv = [ndfout |-> TRUE, batchsize |-> 0]
        /\ inputIsList = FALSE
        /\ flushEvery \in FlushPeriods

(***************************************************************************)
(* uploadViaMutation                                                       *)
(***************************************************************************)
batchSize == IF argv.batchsize # 0 THEN argv.batchsize ELSE DEFAULT_BATCH_SIZE

\* Array.prototype.slice(from, to): a negative index counts from the end,
\* and nothing is taken when the start is not before the end
SliceIndex(d, n) ==
  IF n < 0 THEN (IF Len(d) + n < 0 THEN 0 ELSE Len(d) + n) ELSE Min(n, Len(d))
Slice(d, from, to) ==
  IF SliceIndex(d, from) >= SliceIndex(d, to) THEN <<>>
  ELSE SubSeq(d, SliceIndex(d, from) + 1, SliceIndex(d, to))

\* the requests of one file the model follows: more than a file has records
MaxRequests == MaxRecs + 2

PushMutationError(fr, f) ==
  [fr EXCEPT !.errors.mutation = Append(@, f)]

\* a failed read that is not recorded
PushDataReadErrorForgotten(fr, f) == fr

PushDataReadError(fr, f) ==
  [fr EXCEPT !.errors.dataRead = Append(@, f)]

\* an upload failure that is not counted
incErrorsForgotten(fr, f) == fr

incErrors(fr, f) ==
  [fr EXCEPT !.errors.uploading[f] = @ + 1]

\* a verdict that ignores the upload errors of the file
CountsWhateverHappened(fr, f) == TRUE

\* the end of uploadViaMutation: the file succeeded if it has no upload error
CountsAsSucceeded(fr, f) == fr.errors.uploading[f] = 0

\* load returns (how = "done") or throws (how = "threw") for file f
Return(f, how) == fpc' = [fpc EXCEPT ![f] = how]

\* the build outcome of a batch that makes uploadViaMutation give up
BuildFailed(b) == b.threw \/ ~Truthy(b.v)

\* the while loop from its test at offset `off` up to the next await: either
\* the loop ends and the file is counted, or the build fails, or the request
\* of the batch at `off` is sent
BatchLoop(f, d, off, fr, infl, snt, dat, offs) ==
  LET end == Min(off + batchSize, Len(d))
      batch == Slice(d, off, end)
      b == buildMutation(inputIsList, batch)
  IN /\ data' = [dat EXCEPT ![f] = d]
     /\ offset' = [offs EXCEPT ![f] = off]
     /\ IF ~(off < Len(d))
        THEN /\ fileResults' = IF CountsAsSucceeded(fr, f)
                               THEN [fr EXCEPT !.succeed = @ + 1] ELSE fr
             /\ succFiles' = IF CountsAsSucceeded(fr, f)
                             THEN succFiles \cup {f} ELSE succFiles
             /\ Return(f, "done")
             /\ inflight' = infl
             /\ sent' = snt
        ELSE IF BuildFailed(b)
        THEN /\ fileResults' = PushMutationError(fr, f)
             /\ Return(f, "done")
             /\ inflight' = infl
             /\ sent' = snt
             /\ UNCHANGED succFiles
        ELSE /\ Len(snt) < MaxRequests
             /\ sent' = Append(snt, [file |-> f, offset |-> off, end |-> end,
                                      batch |-> batch, mutation |-> b.v.s])
             /\ inflight' = infl \cup {[file |-> f, offset |-> off]}
             /\ fileResults' = fr
             /\ fpc' = [fpc EXCEPT ![f] = "await"]
             /\ UNCHANGED succFiles

\* the requests of file f that are outstanding
Outstanding(f) == {r \in inflight : r.file = f}

\* what await context.client.request(mutation) and the code after it do to
\* the aggregate: escaped is an exception that leaves uploadViaMutation
\* (the catch block reads error.response.error, which throws when the error
\* object has no response)
AfterRequest(fr, f, outcome) ==
  CASE outcome \in {"ok", "nulls"} -> [escaped |-> FALSE, fr |-> fr]
    [] outcome = "errors" -> [escaped |-> FALSE, fr |-> incErrors(fr, f)]
    [] outcome \in {"excResponse", "excString"} ->
         [escaped |-> FALSE, fr |-> incErrors(fr, f)]
    [] outcome = "excNoResponse" -> [escaped |-> TRUE, fr |-> fr]

\* getMutationField / getInputTypeDef for the mutation of a file
MutationResolutions == {"ok", "noMutationType", "notFound", "noInputArg"}

\* uploadViaMutation from its start to its first await (or its return)
UploadStart(f, fr, dat, offs, snt) ==
  \E res \in MutationResolutions :
    \/ /\ res \in {"noMutationType", "notFound"}
       /\ began' = res
       /\ fileResults' = PushMutationError(fr, f)
       /\ Return(f, "done")
       /\ data' = dat /\ offset' = offs /\ sent' = snt
       /\ UNCHANGED <<inflight, succFiles, recsRead>>
    \/ /\ res = "noInputArg"   \* destructuring the undefined result throws
       /\ began' = res
       /\ fileResults' = fr
       /\ Return(f, "threw")
       /\ data' = dat /\ offset' = offs /\ sent' = snt
       /\ UNCHANGED <<inflight, succFiles, recsRead>>
    \/ /\ res = "ok"
       /\ \/ /\ began' = "unreadable"
             /\ fileResults' = PushDataReadError(fr, f)   \* readData: undefined
             /\ Return(f, "done")
             /\ data' = dat /\ offset' = offs /\ sent' = snt
             /\ UNCHANGED <<inflight, succFiles, recsRead>>
          \/ \E d \in SeqsUpTo(UploadRecords, MaxRecs - recsRead) :
               /\ began' = "read"
               /\ recsRead' = recsRead + Len(d)
               /\ BatchLoop(f, d, 0, fr, inflight, snt, dat, offs)

\* the request of the current batch of file f settles; the rest of the loop
\* body runs, then the loop up to the next await
Settle(f) ==
  /\ fpc[f] = "await"
  /\ \E r \in Outstanding(f), outcome \in Outcomes :
       LET after == AfterRequest(fileResults, f, outcome)
       IN /\ observed' =
               [last |-> [file |-> f, offset |-> r.offset,
                          outcome |-> outcome],
                fails |-> IF outcome \in FailureOutcomes
                          THEN [observed.fails EXCEPT ![f] = @ + 1]
                          ELSE observed.fails,
                nulls |-> IF outcome = "nulls" THEN observed.nulls \cup {f}
                          ELSE observed.nulls]
          /\ IF after.escaped
             THEN /\ UNCHANGED sent
                  /\ inflight' = inflight \ {r}
                  /\ fileResults' = after.fr
                  /\ Return(f, "threw")
                  /\ UNCHANGED <<succFiles, data, offset>>
             ELSE BatchLoop(f, data[f], offset[f] + batchSize, after.fr,
                            inflight \ {r}, sent, data, offset)
  /\ UNCHANGED <<call, began, argv, inputIsList, flushEvery, filePaths, hpc, i, ndf, disk,
                 written, reports, recsRead>>

(***************************************************************************)
(* convertToNdf                                                            *)
(***************************************************************************)
\* names every object inherits from Object.prototype: `dedupe[id]` is truthy
\* for them although `dedupe = {}` has no entry of its own
ObjectPrototypeKeys == {"constructor", "toString", "valueOf",
                        "hasOwnProperty", "isPrototypeOf",
                        "propertyIsEnumerable", "toLocaleString", "__proto__"}

\* the truthiness of dedupe[id]
DedupeHas(dedupe, key) ==
  \/ HasKey(dedupe, key) /\ Truthy(Get(dedupe, key))
  \/ ~HasKey(dedupe, key) /\ key \in ObjectPrototypeKeys

\* mkNdfId reads id.length, which throws on null and undefined
mkNdfIdThrows(v) == v.t \in {"null", "undefined"}

\* the branch of the field loop taken for the n-th key of an entity: cat is
\* where the field goes ("node", "list", "rel", or "none" for a value that
\* coerces to null), threw an exception that leaves convertToNdf
NoClass == [threw |-> FALSE, cat |-> "none", k |-> "", v |-> Null,
            toType |-> "", toIds |-> <<>>]

Classify(entity, n) ==
  LET fieldName == entity[n].k
      value == entity[n].v
      f == getField(fieldName)
      c == coerce(f.namedType, value, Null, FALSE, TRUE)
      scalar == IF f.namedType = "ID" THEN Ok(mkNdfId(value)) ELSE c
      base == [NoClass EXCEPT !.k = fieldName]
  IN IF f.threw THEN [base EXCEPT !.threw = TRUE]
     ELSE IF f.isList /\ f.isObject
     THEN IF value.t # "array" \/ \E k \in 1..Len(value.a) : mkNdfIdThrows(value.a[k])
          THEN [base EXCEPT !.threw = TRUE]
          ELSE [base EXCEPT !.cat = "rel", !.toType = f.namedType,
                            !.toIds = [k \in 1..Len(value.a) |-> mkNdfId(value.a[k])]]
     ELSE IF f.isList
     THEN IF f.namedType = "ID" /\ mkNdfIdThrows(value)
          THEN [base EXCEPT !.threw = TRUE]
          ELSE [base EXCEPT !.cat = "list",
                            !.v = IF f.namedType = "ID" THEN mkNdfId(value) ELSE value]
     ELSE IF f.isObject
     THEN IF mkNdfIdThrows(value) THEN [base EXCEPT !.threw = TRUE]
          ELSE [base EXCEPT !.cat = "rel", !.toType = f.namedType,
                            !.toIds = <<mkNdfId(value)>>]
     ELSE IF (f.namedType = "ID" /\ mkNdfIdThrows(value)) \/ scalar.threw
          THEN [base EXCEPT !.threw = TRUE]
          ELSE IF scalar.v.t \in {"null", "undefined"} THEN base
          ELSE [base EXCEPT !.cat = "node", !.v = scalar.v]

\* the keys of an entity other than id, classified, in key order
NonIdFields(entity) == SelectSeq(entity, LAMBDA kv : kv.k # "id")
Classes(entity) ==
  [n \in 1..Len(NonIdFields(entity)) |-> Classify(NonIdFields(entity), n)]
OfCat(entity, cat) == SelectSeq(Classes(entity), LAMBDA c : c.cat = cat)

nodeValues(entity) ==
  [n \in 1..Len(OfCat(entity, "node")) |->
     KV(OfCat(entity, "node")[n].k, OfCat(entity, "node")[n].v)]
listValues(entity) ==
  [n \in 1..Len(OfCat(entity, "list")) |->
     KV(OfCat(entity, "list")[n].k, OfCat(entity, "list")[n].v)]

\* the relation pairs of an entity: one per field and target id
RelPairs(id, c) ==
  [k \in 1..Len(c.toIds) |->
     [from |-> [typeName |-> TypeName, id |-> id, fieldName |-> c.k],
      to |-> [typeName |-> c.toType, id |-> c.toIds[k]]]]

RECURSIVE Flatten(_)
Flatten(ss) == IF Len(ss) = 0 THEN <<>> ELSE Head(ss) \o Flatten(Tail(ss))

relPairs(entity, id) ==
  Flatten([n \in 1..Len(OfCat(entity, "rel")) |->
             RelPairs(id, OfCat(entity, "rel")[n])])

NodeEntry(entity, id) ==
  <<KV("_typeName", Str(TypeName)), KV("id", id)>> \o nodeValues(entity)
ListEntry(entity, id) ==
  <<KV("_typeName", Str(TypeName)), KV("id", id)>> \o listValues(entity)

\* a name that does not depend on the generation
PadStart5Fixed(s) == "00001"

\* `${ndfGenCnt}`.padStart(5, '0')
PadStart5(s) ==
  CASE Len(s) >= 5 -> s
    [] Len(s) = 4 -> "0" \o s
    [] Len(s) = 3 -> "00" \o s
    [] Len(s) = 2 -> "000" \o s
    [] Len(s) = 1 -> "0000" \o s
    [] OTHER -> "00000"

\* flush: st is [fr, nodes, lists, relations, disk, written]; nothing
\* happens when the three buffers are empty, else the generation is counted
\* and every non-empty buffer is written under its name and emptied
WriteOf(file, valueType, outName, values) ==
  [file |-> file, valueType |-> valueType, outName |-> outName,
   count |-> Len(values)]

\* a generation counter that does not advance
IncGenStuck(n) == n

\* fileResults.ndfGenCnt++
IncGen(n) == n + 1

\* a flush that writes nothing
flushSkipped(st, file) == st

flush(st, file) ==
  LET gen == IncGen(st.fr.ndfGenCnt)
      outName == PadStart5(ToString(gen))
      writes ==
        (IF ~isNullOrEmpty(st.nodes)
         THEN <<WriteOf(file, "nodes", outName, st.nodes)>> ELSE <<>>)
        \o (IF ~isNullOrEmpty(st.lists)
            THEN <<WriteOf(file, "lists", outName, st.lists)>> ELSE <<>>)
        \o (IF ~isNullOrEmpty(st.relations)
            THEN <<WriteOf(file, "relations", outName, st.relations)>>
            ELSE <<>>)
  IN IF isNullOrEmpty(st.nodes) /\ isNullOrEmpty(st.lists)
        /\ isNullOrEmpty(st.relations)
     THEN st
     ELSE [fr |-> [st.fr EXCEPT !.ndfGenCnt = gen,
                                !.ndfFileCnt = @ + Len(writes)],
           nodes |-> <<>>, lists |-> <<>>, relations |-> <<>>,
           disk |-> st.disk \o writes,
           written |-> [nodes |-> st.written.nodes \o st.nodes,
                        lists |-> st.written.lists \o st.lists,
                        relations |-> st.written.relations \o st.relations]]

\* a per-record error that is not recorded
PushNdfErrorForgotten(fr, f, kind, rec) == fr

PushNdfError(fr, f, kind, rec) ==
  [fr EXCEPT !.errors.ndf = Append(@, [file |-> f, kind |-> kind, rec |-> rec])]

\* dedupe[key] = value
SetKey(obj, key, value) ==
  IF HasKey(obj, key)
  THEN [n \in 1..Len(obj) |-> IF obj[n].k = key THEN KV(key, value) ELSE obj[n]]
  ELSE Append(obj, KV(key, value))

\* schema.getType(typeName) and getField(baseType, 'id') for the type of a file
TypeResolutions == {"ok", "typeNotFound", "noIdField"}

\* a table that outlives the call
DedupeKept(old) == old

\* `const dedupe = {}`: each call starts with a table of its own; old is
\* the table of the call before
NewDedupe(old) == <<>>

\* convertToNdf from its start to the entity loop (or its return)
ConvertStart(f, fr) ==
  /\ UNCHANGED <<inflight, succFiles, disk>>
  /\ written' = NoWritten
  /\ \E tr \in TypeResolutions :
       \/ /\ tr = "typeNotFound"
          /\ began' = tr
          /\ fileResults' = PushNdfError(fr, f, "typeNotFound", 0)
          /\ fpc' = [fpc EXCEPT ![f] = "done"]
          /\ ndf' = NoNdf
          /\ UNCHANGED recsRead
       \/ /\ tr = "noIdField"    \* getField throws `Undefined field: id`
          /\ began' = tr
          /\ fileResults' = fr
          /\ fpc' = [fpc EXCEPT ![f] = "threw"]
          /\ ndf' = NoNdf
          /\ UNCHANGED recsRead
       \/ /\ tr = "ok"
          /\ \/ /\ began' = "unreadable"
                /\ fileResults' = PushDataReadError(fr, f)
                /\ fpc' = [fpc EXCEPT ![f] = "done"]
                /\ ndf' = NoNdf
                /\ UNCHANGED recsRead
             \/ \E d \in SeqsUpTo(NdfRecords, MaxRecs - recsRead) :
                  /\ began' = "read"
                  /\ recsRead' = recsRead + Len(d)
                  /\ fileResults' = fr
                  /\ fpc' = [fpc EXCEPT ![f] = "convert"]
                  /\ ndf' = [NoNdf EXCEPT !.file = f, !.data = d, !.idx = 1,
                                          !.dedupe = NewDedupe(ndf.dedupe)]

\* a converter that flushes at the end of the file only
FlushNeverDue(cnt) == FALSE

\* `entityCnt % 10000 === 0`
FlushDue(cnt) == cnt % flushEvery = 0

\* one turn of data.forEach
ConvertEntity(f) ==
  /\ fpc[f] = "convert"
  /\ ndf.file = f
  /\ ndf.idx <= Len(ndf.data)
  /\ LET entity == ndf.data[ndf.idx]
         rawId == Get(entity, "id")
         id == mkNdfId(rawId)
         key == ToText(id)
         cnt == ndf.entityCnt + 1
         st == [fr |-> fileResults,
                nodes |-> Append(ndf.nodes, NodeEntry(entity, id)),
                lists |-> IF isNullOrEmpty(listValues(entity)) THEN ndf.lists
                          ELSE Append(ndf.lists, ListEntry(entity, id)),
                relations |-> ndf.relations \o relPairs(entity, id),
                disk |-> disk, written |-> written]
         st2 == IF FlushDue(cnt) THEN flush(st, f) ELSE st
     IN IF ~Truthy(rawId)
        THEN /\ fileResults' = PushNdfError(fileResults, f, "missingId", ndf.idx)
             /\ ndf' = [ndf EXCEPT !.errorCnt = @ + 1, !.idx = @ + 1]
             /\ UNCHANGED <<fpc, disk, written>>
        ELSE IF DedupeHas(ndf.dedupe, key)
        THEN /\ fileResults' = PushNdfError(fileResults, f, "duplicateId", ndf.idx)
             /\ ndf' = [ndf EXCEPT !.errorCnt = @ + 1, !.idx = @ + 1]
             /\ UNCHANGED <<fpc, disk, written>>
        ELSE IF \E n \in 1..Len(Classes(entity)) : Classes(entity)[n].threw
        THEN /\ fpc' = [fpc EXCEPT ![f] = "threw"]
             /\ UNCHANGED <<fileResults, ndf, disk, written>>
        ELSE /\ fileResults' = st2.fr
             /\ disk' = st2.disk
             /\ written' = st2.written
             /\ ndf' = [ndf EXCEPT !.idx = @ + 1, !.entityCnt = cnt,
                                   !.nodes = st2.nodes, !.lists = st2.lists,
                                   !.relations = st2.relations,
                                   !.dedupe = SetKey(@, key, rawId)]
             /\ UNCHANGED fpc
  /\ Quiet
  /\ UNCHANGED <<call, began, argv, inputIsList, flushEvery, filePaths, hpc, i, data, offset,
                 inflight, sent, reports, succFiles, recsRead>>

\* after the entity loop: the last flush, then the verdict on the file
ConvertEnd(f) ==
  /\ fpc[f] = "convert"
  /\ ndf.file = f
  /\ ndf.idx > Len(ndf.data)
  /\ LET st2 == flush([fr |-> fileResults, nodes |-> ndf.nodes,
                       lists |-> ndf.lists, relations |-> ndf.relations,
                       disk |-> disk, written |-> written], f)
     IN /\ fileResults' = IF ndf.errorCnt = 0
                          THEN [st2.fr EXCEPT !.succeed = @ + 1] ELSE st2.fr
        /\ succFiles' = IF ndf.errorCnt = 0 THEN succFiles \cup {f} ELSE succFiles
        /\ disk' = st2.disk
        /\ written' = st2.written
        /\ ndf' = [ndf EXCEPT !.nodes = st2.nodes, !.lists = st2.lists,
                              !.relations = st2.relations]
  /\ fpc' = [fpc EXCEPT ![f] = "done"]
  /\ Quiet
  /\ UNCHANGED <<call, began, argv, inputIsList, flushEvery, filePaths, hpc, i, data, offset,
                 inflight, sent, reports, recsRead>>

(***************************************************************************)
(* handler and load                                                        *)
(***************************************************************************)
\* a handler that calls load without awaiting it
NotAwaited(j) == TRUE

\* `await load(...)`: the handler goes on when the load of the file it
\* called last has returned
Awaited(j) == IF j = 0 THEN TRUE ELSE fpc[j] = "done"

\* the handler runs only when no synchronous code is running
Idle == \A f \in Files : fpc[f] # "convert"

\* the load of file g has returned or thrown: what the model keeps of its
\* locals is dropped when the next load starts
Returned(g) == fpc[g] \in {"done", "threw"}

\* a load that takes files of any type
AnythingSupported(ext) == TRUE

\* the switch on the extension: .csv, .tsv, .dat and .json go on
Supported(ext) == ext \in SupportedExts

\* load(context, filePaths[f]) up to its first await (or its return)
LoadFile(f) ==
  /\ hpc = "loop"
  /\ f \in Files
  /\ i = f - 1
  /\ Awaited(i)
  /\ Idle
  /\ i' = f
  /\ LET dat == [g \in Files |-> IF Returned(g) THEN <<>> ELSE data[g]]
         offs == [g \in Files |-> IF Returned(g) THEN 0 ELSE offset[g]]
         snt == SelectSeq(sent, LAMBDA r : ~Returned(r.file))
         fr == [fileResults EXCEPT !.total = @ + 1]
     IN IF ~Supported(filePaths[f])
        THEN /\ fpc' = [fpc EXCEPT ![f] = "done"]
             /\ began' = "unsupported"
             /\ data' = dat /\ offset' = offs /\ sent' = snt
             /\ ndf' = NoNdf /\ written' = NoWritten
             /\ UNCHANGED <<fileResults, inflight, disk, succFiles, recsRead>>
        ELSE IF argv.ndfout
        THEN /\ ConvertStart(f, fr)
             /\ data' = dat /\ offset' = offs /\ sent' = snt
        ELSE /\ UploadStart(f, fr, dat, offs, snt)
             /\ ndf' = NoNdf /\ written' = NoWritten
             /\ UNCHANGED disk
  /\ Quiet
  /\ UNCHANGED <<call, argv, inputIsList, flushEvery, filePaths, hpc, reports>>

\* the load awaited by the handler threw: the handler's promise rejects
HandlerRejects ==
  /\ hpc = "loop"
  /\ i >= 1
  /\ fpc[i] = "threw"
  /\ hpc' = "rejected"
  /\ Quiet
  /\ UNCHANGED <<call, began, argv, inputIsList, flushEvery, filePaths, i, fpc, fileResults,
                 data, offset, inflight, sent, ndf, disk, written, reports,
                 succFiles, recsRead>>

\* after the last file: buildReport()
Report ==
  /\ hpc = "loop"
  /\ i = Len(filePaths)
  /\ Awaited(i)
  /\ Idle
  /\ hpc' = "done"
  /\ reports' = reports + 1
  /\ Quiet
  /\ UNCHANGED <<call, began, argv, inputIsList, flushEvery, filePaths, i, fpc, fileResults,
                 data, offset, inflight, sent, ndf, disk, written, succFiles,
                 recsRead>>

Next ==
  \/ \E f \in Files : LoadFile(f)
  \/ \E f \in Files : Settle(f)
  \/ \E f \in Files : ConvertEntity(f)
  \/ \E f \in Files : ConvertEnd(f)
  \/ HandlerRejects
  \/ Report

Spec == Init /\ [][Next]_vars

(***************************************************************************)
(* Properties of the upload path.                                          *)
(***************************************************************************)
Count(seq, x) == Cardinality({n \in 1..Len(seq) : seq[n] = x})
CeilDiv(n, b) == (n + b - 1) \div b

\* a record with an array for a field that is not list-typed, or with a
\* non-array for a list-typed field
ShapeMismatch(row) ==
  \E n \in 1..Len(row) :
    /\ ~getField(row[n].k).threw
    /\ (row[n].v.t = "array") # getField(row[n].k).isList

HasShapeMismatch(d) == \E n \in 1..Len(d) : ShapeMismatch(d[n])

\* the upload of file f is the last one started and it is over
UploadOver(f) == ~argv.ndfout /\ f = i /\ Returned(f)

\* C1: once the upload of a file of N well-shaped records with a positive
\* batch size B is over, exactly ceil(N/B) requests were issued, the k-th
\* (0-based) at offset k*B with the records k*B .. min((k+1)*B, N)-1, in
\* increasing k.
C1_OneRequestPerBatch ==
  \A f \in Files :
    (UploadOver(f) /\ argv.batchsize > 0 /\ ~HasShapeMismatch(data[f])) =>
      /\ Len(sent) = CeilDiv(Len(data[f]), argv.batchsize)
      /\ \A k \in 0..(Len(sent) - 1) :
           /\ sent[k + 1].file = f
           /\ sent[k + 1].offset = k * argv.batchsize
           /\ sent[k + 1].batch =
                SubSeq(data[f], k * argv.batchsize + 1,
                       Min((k + 1) * argv.batchsize, Len(data[f])))

\* C2: no request is ever made for a batch holding a record with a shape
\* mismatch, and a file with such a record ends with exactly one mutation
\* error and is not counted as succeeded.
C2_ShapeMismatchStopsTheFile ==
  /\ \A k \in 1..Len(sent) : ~HasShapeMismatch(sent[k].batch)
  /\ \A f \in Files :
       (UploadOver(f) /\ HasShapeMismatch(data[f])) =>
         /\ Count(fileResults.errors.mutation, f) = 1
         /\ f \notin succFiles

\* the step settles a request of file f with one of the outcomes outs
SettledWith(f, outs) ==
  observed'.last.file = f /\ observed'.last.outcome \in outs

\* after the step the loop is at the batch that follows the settled one:
\* its request is the one outstanding, or the file is over if there is none
GoesOnAfter(f) ==
  LET o == observed'.last.offset + batchSize
  IN IF o < Len(data[f])
     THEN /\ fpc'[f] = "await"
          /\ Len(sent') = Len(sent) + 1
          /\ sent'[Len(sent')].offset = o
          /\ inflight' = {[file |-> f, offset |-> o]}
     ELSE fpc'[f] = "done" /\ sent' = sent /\ inflight' = {}

ExceptionOutcomes == {"excResponse", "excNoResponse", "excString"}

\* C3: every step in which the request of a batch throws (an error with a
\* response, an error without one, a string) adds exactly one to the
\* upload-error count of the file, does not end the load by an exception,
\* and leaves the loop at the next batch.
C3_ExceptionsAreCounted ==
  [][\A f \in Files :
       SettledWith(f, ExceptionOutcomes) =>
         /\ fileResults'.errors.uploading[f] =
              fileResults.errors.uploading[f] + 1
         /\ fpc'[f] # "threw"
         /\ GoesOnAfter(f)]_vars

\* C4: every step in which the response of a batch carries top-level
\* `errors` adds exactly one to the upload-error count of the file, does not
\* count the file as succeeded, and leaves the loop at the next batch.
C4_ErrorsResponseIsCounted ==
  [][\A f \in Files :
       SettledWith(f, {"errors"}) =>
         /\ fileResults'.errors.uploading[f] =
              fileResults.errors.uploading[f] + 1
         /\ fileResults'.succeed = fileResults.succeed
         /\ f \notin succFiles'
         /\ GoesOnAfter(f)]_vars

\* an `errors` response was counted and the next batch is on its way
C4_Witness ==
  \E f \in Files :
    /\ observed.last.file = f
    /\ observed.last.outcome = "errors"
    /\ fileResults.errors.uploading[f] = 1
    /\ fpc[f] = "await"
    /\ Len(sent) = 2

\* the loop of file f ran to its end: the mutation was resolved, the data
\* read, and every batch built and sent
AllBatchesSent(f) ==
  /\ UploadOver(f)
  /\ fpc[f] = "done"
  /\ filePaths[f] \in SupportedExts
  /\ Count(fileResults.errors.mutation, f) = 0
  /\ Count(fileResults.errors.dataRead, f) = 0

C6_Sequential ==
  /\ Cardinality(inflight) <= 1
  /\ \A f \in Files : (fpc[f] # "idle") <=> (f <= i)
  /\ \A f \in Files : f < i => fpc[f] = "done"
  /\ Cardinality({f \in Files : fpc[f] \in {"await", "convert"}}) <= 1
  /\ \A r \in inflight :
       /\ fpc[r.file] = "await"
       /\ sent[Len(sent)].file = r.file
       /\ sent[Len(sent)].offset = r.offset

\* the second batch of the second file is outstanding, the first file done
C6_Witness ==
  /\ i = 2
  /\ fpc[1] = "done"
  /\ fpc[2] = "await"
  /\ Len(sent) = 2
  /\ inflight = {[file |-> 2, offset |-> 1]}

(***************************************************************************)
(* Properties of the NDF path.  They read the conversion called last: its  *)
(* records ndf.data, of which those before ndf.idx have been processed.    *)
(***************************************************************************)
Carries(p) == Truthy(Get(ndf.data[p], "id"))
NormId(p) == ToText(mkNdfId(Get(ndf.data[p], "id")))

\* record p is the first, or a later one, of the records with its id
FirstOfItsId(p) ==
  /\ Carries(p)
  /\ \A q \in 1..(p - 1) : Carries(q) => NormId(q) # NormId(p)
LaterOfItsId(p) ==
  /\ Carries(p)
  /\ \E q \in 1..(p - 1) : Carries(q) /\ NormId(q) = NormId(p)

\* the records to skip: no id, an empty id, or the id of an earlier record
Skipped(p) == IF Carries(p) THEN LaterOfItsId(p) ELSE TRUE

\* the conversion called last has not been left by an exception
NotAborted == IF ndf.file = 0 THEN FALSE ELSE fpc[ndf.file] # "threw"

ErrorsOf(p, kind) ==
  Cardinality({n \in 1..Len(fileResults.errors.ndf) :
                 fileResults.errors.ndf[n] =
                   [file |-> ndf.file, kind |-> kind, rec |-> p]})

\* everything emitted so far: written, or still in the buffers
AllNodes == written.nodes \o ndf.nodes
AllLists == written.lists \o ndf.lists
AllRelations == written.relations \o ndf.relations

EntriesOf(entries, id) ==
  {n \in 1..Len(entries) : ToText(Get(entries[n], "id")) = id}

\* C7: in a conversion, the first record of every normalized id is emitted
\* (one node entry, no duplicate-id error), every later record with the
\* same normalized id gets exactly one duplicate-id error and no entry, and
\* errorCnt counts exactly the skipped records.
C7_OnlyLaterRecordsAreDuplicates ==
  NotAborted =>
    /\ \A p \in 1..(ndf.idx - 1) :
         /\ FirstOfItsId(p) =>
              /\ ErrorsOf(p, "duplicateId") = 0
              /\ Cardinality(EntriesOf(AllNodes, NormId(p))) = 1
         /\ LaterOfItsId(p) => ErrorsOf(p, "duplicateId") = 1
    /\ ndf.errorCnt = Cardinality({p \in 1..(ndf.idx - 1) : Skipped(p)})

\* the entity loop is at a record with a missing or empty id, or a duplicate
AtSkippedRecord ==
  IF ndf.file = 0 THEN FALSE
  ELSE /\ fpc[ndf.file] = "convert"
       /\ ndf.idx <= Len(ndf.data)
       /\ Skipped(ndf.idx)

\* C8: the step that processes a record with a missing, empty or duplicate
\* id adds one entry to the NDF errors and one to errorCnt, emits nothing,
\* and leaves the conversion running at the next record.
C8_SkippedRecordDoesNotAbort ==
  [][(AtSkippedRecord /\ ndf' # ndf) =>
       /\ fileResults'.errors.ndf =
            Append(fileResults.errors.ndf,
                   [file |-> ndf.file,
                    kind |-> IF Carries(ndf.idx) THEN "duplicateId"
                             ELSE "missingId",
                    rec |-> ndf.idx])
       /\ ndf' = [ndf EXCEPT !.errorCnt = @ + 1, !.idx = @ + 1]
       /\ written' = written
       /\ disk' = disk
       /\ fpc'[ndf.file] = "convert"]_vars

\* a record without id was skipped, the record after it converted, and the
\* conversion reached its end
C8_Witness ==
  /\ NotAborted
  /\ fpc[ndf.file] = "done"
  /\ Len(ndf.data) = 2
  /\ ~Carries(1)
  /\ ErrorsOf(1, "missingId") = 1
  /\ ndf.errorCnt = 1
  /\ ndf.entityCnt = 1
  /\ Len(written.nodes) = 1

\* convertToNdf on the records d from the k-th on, with the flush at
\* end-of-file as its only flush: acc is [threw, dedupe, nodes, lists,
\* relations]
RECURSIVE FlushOnce(_, _, _)
FlushOnce(d, k, acc) ==
  IF k > Len(d) THEN acc
  ELSE LET entity == d[k]
           rawId == Get(entity, "id")
           id == mkNdfId(rawId)
           key == ToText(id)
       IN IF ~Truthy(rawId) THEN FlushOnce(d, k + 1, acc)
          ELSE IF DedupeHas(acc.dedupe, key) THEN FlushOnce(d, k + 1, acc)
          ELSE IF \E n \in 1..Len(Classes(entity)) : Classes(entity)[n].threw
          THEN [acc EXCEPT !.threw = TRUE]
          ELSE FlushOnce(d, k + 1,
                 [threw |-> FALSE,
                  dedupe |-> SetKey(acc.dedupe, key, rawId),
                  nodes |-> Append(acc.nodes, NodeEntry(entity, id)),
                  lists |-> IF isNullOrEmpty(listValues(entity)) THEN acc.lists
                            ELSE Append(acc.lists, ListEntry(entity, id)),
                  relations |-> acc.relations \o relPairs(entity, id)])

\* what that conversion writes: nothing if it is left before its flush
WrittenOnce(d) ==
  LET r == FlushOnce(d, 1, [threw |-> FALSE, dedupe |-> <<>>, nodes |-> <<>>,
                            lists |-> <<>>, relations |-> <<>>])
  IN IF r.threw THEN NoWritten
     ELSE [nodes |-> r.nodes, lists |-> r.lists, relations |-> r.relations]

\* C9: when a conversion is over, the node, list and relation entries it
\* has written, generation after generation, are those that the conversion
\* of the same records with a single flush at end-of-file writes.
C9_FlushPeriodIsNotObservable ==
  (IF ndf.file = 0 THEN FALSE ELSE Returned(ndf.file)) =>
    written = WrittenOnce(ndf.data)

\* the names of the fields an entry of record id carries, besides the two
\* every entry has
FieldsIn(entries, id) ==
  UNION {{entries[n][m].k : m \in 1..Len(entries[n])} :
           n \in EntriesOf(entries, id)} \ {"_typeName", "id"}

RelationFieldsOf(id) ==
  {AllRelations[n].from.fieldName :
     n \in {m \in 1..Len(AllRelations) : ToText(AllRelations[m].from.id) = id}}

\* the categories in which field k of the record with this id was emitted
CategoriesOf(id, k) ==
  {c \in {"node", "list", "relation"} :
     k \in (CASE c = "node" -> FieldsIn(AllNodes, id)
              [] c = "list" -> FieldsIn(AllLists, id)
              [] c = "relation" -> RelationFieldsOf(id))}

\* record p was classified: it has an id and no error was recorded for it
Classified(p) == Carries(p) /\ ErrorsOf(p, "duplicateId") = 0

\* C10: every non-id field of every classified record is emitted in exactly
\* one of the node entry, the list entry and the relation entries of the
\* record.
C10_EveryFieldEmittedOnce ==
  NotAborted =>
    \A p \in 1..(ndf.idx - 1) :
      Classified(p) =>
        \A m \in 1..Len(ndf.data[p]) :
          ndf.data[p][m].k # "id" =>
            Cardinality(CategoriesOf(NormId(p), ndf.data[p][m].k)) = 1

\* the generation number an output file name spells (0 if it spells none)
GenOf(outName) ==
  IF \E g \in 1..Len(disk) : PadStart5(ToString(g)) = outName
  THEN CHOOSE g \in 1..Len(disk) : PadStart5(ToString(g)) = outName
  ELSE 0

\* C12: the generations of the files written in a run never decrease in
\* write order, all lie between 1 and the counter, and two files carry the
\* same generation only if one flush wrote them (same input file, different
\* value types): a later flush, of the same or of a later input file, uses
\* a strictly greater generation.
C12_GenerationsIncrease ==
  /\ \A n \in 1..Len(disk) :
       GenOf(disk[n].outName) \in 1..fileResults.ndfGenCnt
  /\ \A m \in 1..Len(disk) : \A n \in (m + 1)..Len(disk) :
       /\ GenOf(disk[m].outName) <= GenOf(disk[n].outName)
       /\ GenOf(disk[m].outName) = GenOf(disk[n].outName) =>
            /\ disk[m].file = disk[n].file
            /\ disk[m].valueType # disk[n].valueType
            /\ n - m <= 2

\* the second input file was written under a greater generation than the
\* first
C12_Witness ==
  \E m \in 1..Len(disk) : \E n \in 1..Len(disk) :
    /\ disk[m].file = 1
    /\ disk[n].file = 2
    /\ GenOf(disk[m].outName) = 1
    /\ GenOf(disk[n].outName) = 2

(***************************************************************************)
(* Properties of the start of a load.                                      *)
(***************************************************************************)
\* the ways the mutation of a file is not resolved
ResolutionFailures == {"noMutationType", "notFound", "noInputArg"}

\* the requests made for file f
RequestsOf(f) == {n \in 1..Len(sent) : sent[n].file = f}

\* C13: in the upload path, when the schema has no mutation type, the
\* mutation is not found or it has no single argument named `input`, the
\* current file has exactly one mutation error, no data is read and no
\* request is sent for it, it is not counted as succeeded, and its load
\* returns, so that the handler goes on with the next file.
C13_UnresolvedMutationIsOneError ==
  (i >= 1 /\ ~argv.ndfout /\ began \in ResolutionFailures) =>
    /\ Count(fileResults.errors.mutation, i) = 1
    /\ data[i] = <<>>
    /\ RequestsOf(i) = {}
    /\ i \notin succFiles
    /\ fpc[i] = "done"
    /\ hpc # "rejected"

\* the NDF files written for file f
OutputsOf(f) == {n \in 1..Len(disk) : disk[n].file = f}

\* C14: when the data of a supported file cannot be read or parsed, in the
\* upload path and in the NDF path alike, the file has exactly one data-read
\* error, no request and no NDF output, it is not counted as succeeded, and
\* its load returns, so that the handler goes on with the next file.
C14_UnreadableFileIsOneError ==
  (i >= 1 /\ began = "unreadable") =>
    /\ Count(fileResults.errors.dataRead, i) = 1
    /\ RequestsOf(i) = {}
    /\ OutputsOf(i) = {}
    /\ i \notin succFiles
    /\ fpc[i] = "done"
    /\ hpc # "rejected"

\* the second file is loaded after an unreadable first one, and is unreadable
\* as well
C14_Witness ==
  /\ i = 2
  /\ began = "unreadable"
  /\ Count(fileResults.errors.dataRead, 1) = 1
  /\ Count(fileResults.errors.dataRead, 2) = 1

\* a row of the data of file f made buildMutation's callback throw (an
\* undefined field, a shape mismatch, a value that does not coerce), or a
\* request of the file failed
ErrorRaised(f) ==
  \/ \E n \in 1..Len(data[f]) : Instance(data[f][n]).t = "undefined"
  \/ observed.fails[f] > 0

\* what FileResult holds against file f
RecordedErrors(f) ==
  Count(fileResults.errors.mutation, f) + Count(fileResults.errors.dataRead, f)
    + fileResults.errors.uploading[f]
    + Cardinality({e \in 1..Len(fileResults.errors.ndf) :
                     fileResults.errors.ndf[e].file = f})

\* C16: no error is silently dropped: a file during whose upload an error
\* was raised (while building a mutation, or by a request) is never counted
\* in succeed with no error recorded for it.
C16_NoErrorSilentlyDropped ==
  \A f \in Files :
    (UploadOver(f) /\ ErrorRaised(f)) =>
      ~(f \in succFiles /\ RecordedErrors(f) = 0)

\* C27: whatever the integer given as batch size (positive, zero or
\* negative), the batch loop of a file ends after at most one request per
\* record: it never makes more requests than the file has records.
C27_AtMostOneRequestPerRecord ==
  (i >= 1 /\ ~argv.ndfout) => Cardinality(RequestsOf(i)) <= Len(data[i])

(***************************************************************************)
(* Properties of the records of the NDF path.                              *)
(***************************************************************************)
\* the per-record errors of record n of file f
NdfErrorsOf(f, n) ==
  {e \in 1..Len(fileResults.errors.ndf) :
     fileResults.errors.ndf[e].file = f /\ fileResults.errors.ndf[e].rec = n}

\* C15: in the NDF path a record with a field shape mismatch (a value that
\* is no collection for a list-typed field, or a collection for a field that
\* is not list-typed) is only skipped: once the converter is past it, an
\* error is recorded for it, and the conversion of the file is not aborted.
C15_NdfShapeMismatchSkipsTheRecord ==
  \A n \in 1..Len(ndf.data) :
    (ndf.file # 0 /\ n < ndf.idx /\ ShapeMismatch(ndf.data[n])) =>
      /\ NdfErrorsOf(ndf.file, n) # {}
      /\ fpc[ndf.file] # "threw"

\* the conversion called last has gone through all the records of its file
ConversionOver == ndf.file # 0 /\ began = "read" /\ fpc[ndf.file] = "done"

\* C17: when a conversion has reached the end of its file, the final flush
\* has been made (the buffers are empty and every converted entity is
\* written), and the file is counted in succeed if and only if its error
\* counter errorCnt is zero.
C17_FinalFlushThenVerdict ==
  ConversionOver =>
    /\ ndf.nodes = <<>> /\ ndf.lists = <<>> /\ ndf.relations = <<>>
    /\ Len(written.nodes) = ndf.entityCnt
    /\ ndf.file \in succFiles <=> ndf.errorCnt = 0

\* a file of two records converted without error, written by the final
\* flush alone
C17_Witness ==
  /\ ConversionOver
  /\ flushEvery = NDF_FLUSH_EVERY
  /\ ndf.entityCnt = 2
  /\ Len(written.nodes) = 2
  /\ ndf.file \in succFiles

\* the table that the first n records of the file being converted make,
\* starting from an empty one
RECURSIVE OwnTable(_)
OwnTable(n) ==
  IF n = 0 THEN <<>>
  ELSE LET rawId == Get(ndf.data[n], "id")
           key == ToText(mkNdfId(rawId))
       IN IF ~Truthy(rawId) \/ DedupeHas(OwnTable(n - 1), key)
          THEN OwnTable(n - 1)
          ELSE SetKey(OwnTable(n - 1), key, rawId)

\* C18: the dedupe table is scoped to one input file: it is empty when the
\* conversion of a file starts and holds nothing but the ids of the records
\* of that file converted so far, so that no record is reported as a
\* duplicate because of an id of an earlier file.
C18_DedupeIsPerFile ==
  ndf.file # 0 =>
    /\ ndf.dedupe = OwnTable(ndf.idx - 1)
    /\ ndf.idx = 1 => ndf.dedupe = <<>>

\* the second file is being converted after a first one that filled its
\* table
C18_Witness ==
  /\ ndf.file = 2
  /\ ndf.idx = 2
  /\ Len(ndf.dedupe) = 1
  /\ \E n \in 1..Len(disk) : disk[n].file = 1 /\ disk[n].valueType = "nodes"

\* the records of the file under conversion, among those the converter is
\* past, for which an error is recorded
SkippedSoFar == {n \in 1..(ndf.idx - 1) : NdfErrorsOf(ndf.file, n) # {}}

ValueTypes == {"nodes", "lists", "relations"}

\* C21: in a conversion a flush is made exactly when the count of classified
\* records reaches a multiple of the flush period, and once more at the end
\* of the file; records skipped for a missing or duplicate id do not advance
\* the count; after a flush the three buffers are empty; only non-empty
\* buffers are written, each under nodes, lists or relations with the
\* zero-padded generation counter as its name.
C21_FlushAtMultiplesAndAtEnd ==
  ndf.file # 0 =>
    /\ ndf.errorCnt = Cardinality(SkippedSoFar)
    /\ ndf.entityCnt = ndf.idx - 1 - ndf.errorCnt
    /\ IF ConversionOver
       THEN /\ ndf.nodes = <<>>
            /\ Len(written.nodes) = ndf.entityCnt
       ELSE /\ Len(ndf.nodes) = ndf.entityCnt % flushEvery
            /\ Len(written.nodes) = ndf.entityCnt - (ndf.entityCnt % flushEvery)
    /\ ndf.nodes = <<>> => (ndf.lists = <<>> /\ ndf.relations = <<>>)
    /\ \A n \in OutputsOf(ndf.file) :
         /\ disk[n].count > 0
         /\ disk[n].valueType \in ValueTypes
         /\ Len(disk[n].outName) = 5
         /\ GenOf(disk[n].outName) \in 1..fileResults.ndfGenCnt

\* with a period of one record, of two records one was written as soon as
\* it was converted and the other, skipped, did not advance the count
C21_Witness ==
  /\ ndf.file # 0
  /\ flushEvery = 1
  /\ fpc[ndf.file] = "convert"
  /\ ndf.idx = 3
  /\ ndf.entityCnt = 1
  /\ ndf.errorCnt = 1
  /\ Len(written.nodes) = 1
  /\ ndf.nodes = <<>>

\* the relation pairs emitted for field k of the record with this id
PairsOf(id, k) ==
  {n \in 1..Len(AllRelations) :
     /\ ToText(AllRelations[n].from.id) = id
     /\ AllRelations[n].from.fieldName = k}

\* the category the schema flags of a field call for
CategoryByFlags(k) ==
  IF getField(k).isList
  THEN IF getField(k).isObject THEN "relation" ELSE "list"
  ELSE IF getField(k).isObject THEN "relation" ELSE "node"

\* the number of target ids of a field value: its elements for a list field,
\* one for a singular field
TargetIds(k, v) == IF getField(k).isList THEN Len(v.a) ELSE 1

\* C22: for every non-id field of a classified record the category follows
\* from the schema flags of the field alone: a list of objects gives one
\* relation pair per target id, a list of scalars a list property, a
\* singular object exactly one relation pair, and any other field a node
\* property; so the relation pairs of a record are as many as the target
\* ids of its object-typed fields.
C22_CategoryFollowsSchemaFlags ==
  NotAborted =>
    \A p \in 1..(ndf.idx - 1) :
      Classified(p) =>
        \A m \in 1..Len(ndf.data[p]) :
          LET k == ndf.data[p][m].k
              v == ndf.data[p][m].v
          IN k # "id" =>
               /\ CategoriesOf(NormId(p), k) = {CategoryByFlags(k)}
               /\ Cardinality(PairsOf(NormId(p), k)) =
                    IF getField(k).isObject THEN TargetIds(k, v) ELSE 0

\* record p has a field that is a list of scalars
HasListField(p) ==
  \E m \in 1..Len(ndf.data[p]) :
    /\ ndf.data[p][m].k # "id"
    /\ CategoryByFlags(ndf.data[p][m].k) = "list"

\* the records of the file that have an id and are no duplicates
ToConvert == {p \in 1..Len(ndf.data) : ~Skipped(p)}

\* C23: once a file is converted, every record that has an id and is no
\* duplicate has exactly one node entry, with the type name and its
\* normalized id, and one list entry if and only if it has a list-of-scalar
\* field; the node entries written for the file are as many as those records.
C23_OneNodePerRecord ==
  ConversionOver =>
    /\ \A p \in ToConvert :
         /\ Cardinality(EntriesOf(AllNodes, NormId(p))) = 1
         /\ \A n \in EntriesOf(AllNodes, NormId(p)) :
              Get(AllNodes[n], "_typeName") = Str(TypeName)
         /\ Cardinality(EntriesOf(AllLists, NormId(p))) =
              IF HasListField(p) THEN 1 ELSE 0
    /\ Len(written.nodes) = Cardinality(ToConvert)

\* the ways the base type of a conversion is not usable
TypeFailures == {"typeNotFound", "noIdField"}

\* C26: when the base type of a conversion is not in the schema, or is there
\* without an `id` field, the file has exactly one NDF error, of that kind,
\* no data is read, and the load returns, so that the run is not aborted.
C26_UnusableTypeIsOneError ==
  (i >= 1 /\ argv.ndfout /\ began \in TypeFailures) =>
    /\ Cardinality({e \in 1..Len(fileResults.errors.ndf) :
                      fileResults.errors.ndf[e].file = i}) = 1
    /\ \E e \in 1..Len(fileResults.errors.ndf) :
         fileResults.errors.ndf[e] = [file |-> i, kind |-> began, rec |-> 0]
    /\ ndf = NoNdf
    /\ fpc[i] = "done"
    /\ hpc # "rejected"

\* C28: in a run no NDF output file is written twice (every pair of value
\* type and generation is written at most once), every generation counted
\* has at least one file (a flush with nothing to write counts nothing), and
\* ndfGenCnt <= ndfFileCnt <= 3 * ndfGenCnt.
C28_NoOutputWrittenTwice ==
  /\ \A m, n \in 1..Len(disk) :
       m # n => <<disk[m].valueType, disk[m].outName>>
                  # <<disk[n].valueType, disk[n].outName>>
  /\ \A g \in 1..fileResults.ndfGenCnt :
       \E n \in 1..Len(disk) : GenOf(disk[n].outName) = g
  /\ fileResults.ndfFileCnt = Len(disk)
  /\ fileResults.ndfGenCnt <= fileResults.ndfFileCnt
  /\ fileResults.ndfFileCnt <= 3 * fileResults.ndfGenCnt

\* two flushes have written three files
C28_Witness ==
  /\ fileResults.ndfGenCnt = 2
  /\ fileResults.ndfFileCnt = 3
  /\ Len(disk) = 3

(***************************************************************************)
(* Properties of the run as a whole.                                       *)
(***************************************************************************)
\* the files loaded so far that have a supported extension, and the others
SupportedSoFar == {f \in 1..i : filePaths[f] \in SupportedExts}
UnsupportedSoFar == {f \in 1..i : filePaths[f] \notin SupportedExts}

\* C29: succeed never exceeds total; a file with an unsupported extension
\* changes nothing in FileResult, reads nothing and sends nothing; every
\* supported file is counted once in total; and at the report every file
\* counted in total is either counted in succeed or has an error recorded
\* against it, never both and never neither.
C29_FileResultAccounting ==
  /\ fileResults.succeed <= fileResults.total
  /\ fileResults.succeed = Cardinality(succFiles)
  /\ fileResults.total = Cardinality(SupportedSoFar)
  /\ \A f \in UnsupportedSoFar :
       /\ f \notin succFiles
       /\ RecordedErrors(f) = 0
       /\ data[f] = <<>>
       /\ RequestsOf(f) = {}
       /\ OutputsOf(f) = {}
  /\ hpc = "done" =>
       \A f \in SupportedSoFar : (f \in succFiles) # (RecordedErrors(f) > 0)

\* at the report, of two supported files one succeeded and one has an error
C29_Witness ==
  /\ hpc = "done"
  /\ Cardinality(SupportedSoFar) = 2
  /\ \E f \in SupportedSoFar : f \in succFiles
  /\ \E f \in SupportedSoFar : RecordedErrors(f) > 0

\* C30: whatever the records of a file hold and whatever becomes of its
\* requests, no error keeps the handler from the files that follow and from
\* the report: once the data of a file is read its load does not throw, the
\* handler's promise does not reject, and the report is made at most once.
C30_NoErrorStopsTheRun ==
  /\ reports <= 1
  /\ (i >= 1 /\ began = "read") => (fpc[i] # "threw" /\ hpc # "rejected")

(***************************************************************************)
(* The functions of the command called on their own: each step calls one   *)
(* of them on an input of its domain and keeps the call and its result.    *)
(***************************************************************************)
programVars == <<argv, inputIsList, flushEvery, filePaths, hpc, i, fpc,
                 fileResults, data, offset, inflight, sent, ndf, disk, written,
                 reports, succFiles, observed, recsRead, began>>

\* ids below, at and above the length from which mkNdfId hashes
IdStrings == {"", "a", "constructor", HashedId, Id25, Id26, LongId, LongId2}

\* mkNdfId(s), called twice
CallMkNdfId ==
  /\ \E s \in IdStrings :
       call' = [fn |-> "mkNdfId", s |-> s, out |-> mkNdfId(Str(s)),
                again |-> mkNdfId(Str(s))]
  /\ UNCHANGED programVars

CoerceTypes == {"Int", "Float", "Boolean", "Date", "DateTime", "Time", "String"}

\* raw values of a field of each type, as the readers of a file give them
CoerceValues(type) ==
  CASE type \in {"Int", "Float"} ->
         {Str(""), Str("42"), Str("4.5"), Str("abc"), Num("42"), Num("0"),
          Bool("true"), Null, Undefined}
    [] type = "Boolean" ->
         {Str("TRUE"), Str("false"), Str("abc"), Str(""), Bool("true"),
          Bool("false"), Num("42"), Null}
    [] type \in {"Date", "DateTime"} ->
         {Str(""), Str("2020-01-05"), Str("2020-01-05T00:00:00.000Z"),
          Str("abc"), Null, Undefined}
    [] type = "Time" -> {Str(""), Str("12:30:00"), Str("abc"), Null}
    [] OTHER ->
         {Str(""), Str("abc"), Str("say \"hi\""), Num("42"), Bool("true"),
          Null, Undefined, Arr(<<Str("a")>>)}

\* coerce({type, val, quoted, isoDate}), then coerce of its result with the
\* same type and options when it returned one
CallCoerce ==
  /\ \E type \in CoerceTypes, quoted \in BOOLEAN, isoDate \in BOOLEAN :
       \E val \in CoerceValues(type) :
         LET out == coerce(type, val, Null, quoted, isoDate)
         IN call' = [fn |-> "coerce", type |-> type, val |-> val,
                     quoted |-> quoted, isoDate |-> isoDate, out |-> out,
                     again |-> IF out.threw THEN out
                               ELSE coerce(type, out.v, Null, quoted, isoDate)]
  /\ UNCHANGED programVars

\* rows with a short id, with ids that mkNdfId replaces, and with no id
MutationRows == {R_a, R_long, R_hash, R_coll, R_scalar, R_noid}

\* the position of the key `id` among the keys of a row (0: no such key)
IdKey(row) ==
  IF HasKey(row, "id") THEN CHOOSE n \in 1..Len(row) : row[n].k = "id" ELSE 0

\* buildMutation's callback on one row: the text of its `id` field and the
\* instance it returns
CallBuildMutation ==
  /\ \E row \in MutationRows :
       call' = [fn |-> "buildMutation", row |-> row,
                idField |-> IF IdKey(row) = 0 THEN Thrown
                            ELSE RowField(row, IdKey(row)),
                out |-> Instance(row)]
  /\ UNCHANGED programVars

\* the batches buildMutation is called on
MaxBatch == 2
BatchRows == {R_a, R_long, R_coll}
Batches == SeqsUpTo(BatchRows, MaxBatch) \ {<<>>}

\* buildMutation on a batch, for a list-typed and for a singular input
CallBuildMutationOfBatch ==
  /\ \E isList \in BOOLEAN, batch \in Batches :
       call' = [fn |-> "buildMutationOfBatch", isList |-> isList,
                batch |-> batch, out |-> buildMutation(isList, batch)]
  /\ UNCHANGED programVars

\* field types: plain, non-null, list, non-null list, connection and
\* non-null connection
TypeRefs ==
  {Named("String"), NonNull(Named("String")), ListOf(Named("String")),
   NonNull(ListOf(NonNull(Named("String")))), Named("Company"),
   Named("PersonConnection"), NonNull(Named("PersonConnection"))}

\* typeIsList(type)
CallTypeIsList ==
  /\ \E type \in TypeRefs :
       call' = [fn |-> "typeIsList", type |-> type, out |-> typeIsList(type)]
  /\ UNCHANGED programVars

FnInit ==
  /\ Init
  /\ filePaths = <<>>
  /\ argv = [ndfout |-> FALSE, batchsize |-> 0]
  /\ inputIsList = FALSE

FnNext ==
  \/ CallMkNdfId
  \/ CallCoerce
  \/ CallBuildMutation
  \/ CallBuildMutationOfBatch
  \/ CallTypeIsList

FnSpec == FnInit /\ [][FnNext]_vars

Called(fn) == call.fn = fn

\* C11: mkNdfId of a string is a string of at most 25 characters, it is the
\* string itself when that has at most 25 characters and the digest cut by
\* two characters otherwise, and a second call gives the same result.
C11_MkNdfIdBounded ==
  Called("mkNdfId") =>
    /\ call.out.t = "string"
    /\ Len(call.out.s) <= NDF_ID_LEN
    /\ Len(call.s) <= NDF_ID_LEN => call.out.s = call.s
    /\ Len(call.s) > NDF_ID_LEN =>
         /\ call.out.s # call.s
         /\ call.out.s \o "==" = md5Base64(call.s)
    /\ call.again = call.out

\* an id of 26 characters was replaced by its 22 characters of digest
C11_Witness ==
  /\ Called("mkNdfId")
  /\ Len(call.s) = NDF_ID_LEN + 1
  /\ Len(call.out.s) = 22

\* C19: the `id` of a record never goes through the per-field coercion: the
\* text buildMutation makes of it is that of the id mkNdfId returns.  (For the
\* NDF path, NodeEntry and ListEntry take the id from mkNdfId.)
C19_IdGoesThroughMkNdfId ==
  (Called("buildMutation") /\ HasKey(call.row, "id")) =>
    call.idField =
      Ok(Str("id: " \o JSONstringify(mkNdfId(Get(call.row, "id"))).s \o "\n"))

\* C20, as stated: whenever coerce returns a value v, coerce of v with the
\* same type and options returns v.
C20_CoerceIsIdempotent ==
  (Called("coerce") /\ ~call.out.threw) => call.again = call.out

\* the types whose result does not depend on `quoted`
UnquotedTypes == {"Int", "Float", "Boolean"}

\* C20, amended: whenever coerce returns a value v for a type that is never
\* quoted or with quoted = false, coerce of v with the same type and options
\* returns v.
C20_UnquotedCoerceIsIdempotent ==
  (Called("coerce") /\ ~call.out.threw
     /\ (~call.quoted \/ call.type \in UnquotedTypes)) =>
    call.again = call.out

\* a date is rewritten as an ISO date-time, which coerce leaves as it is
C20_Witness ==
  /\ Called("coerce")
  /\ call.type = "Date" /\ ~call.quoted /\ call.isoDate
  /\ call.val = Str("2020-01-05")
  /\ ~call.out.threw
  /\ call.out.v # call.val
  /\ call.again = call.out

\* the object literals of the records of a batch, in input order
Literals(batch) == [k \in 1..Len(batch) |-> Instance(batch[k])]

\* the aliased selections m0 .. m(N-1) of N literals
Selections(lits) ==
  [k \in 1..Len(lits) |->
     "m" \o ToString(k - 1) \o ": " \o MutationName \o "(input:" \o lits[k].s
       \o ")"]

\* C24: buildMutation makes one text of a batch: for a list-typed input a
\* single call whose argument is the array of the object literals of all
\* the records in input order, for a singular input the N aliased
\* selections m0 .. m(N-1), one per record in input order.
C24_OneTextPerBatch ==
  Called("buildMutationOfBatch") =>
    /\ ~call.out.threw
    /\ call.out.v.t = "string"
    /\ \A k \in 1..Len(call.batch) : Literals(call.batch)[k].t = "string"
    /\ call.out.v.s =
         IF call.isList
         THEN "mutation { " \o MutationName \o "(input:["
                \o Join([k \in 1..Len(call.batch) |->
                           Literals(call.batch)[k].s], ", ")
                \o "]) }"
         ELSE "mutation { " \o Join(Selections(Literals(call.batch)), "\n")
                \o " }"

\* a type without its non-null wrappers
RECURSIVE StripNonNull(_)
StripNonNull(type) ==
  IF type.kind = "NON_NULL" THEN StripNonNull(type.ofType) ELSE type

\* C25: typeIsList holds of a type if and only if, once its non-null
\* wrappers are stripped, it is a list wrapper or a named type whose name
\* ends in Connection.
C25_ListIffListOrConnection ==
  Called("typeIsList") =>
    (call.out <=>
       \/ StripNonNull(call.type).kind = "LIST"
       \/ /\ StripNonNull(call.type).kind = "NAMED"
          /\ StripNonNull(call.type).name \in ConnectionNames)

====
